---- MODULE Spec2Model ----
(***************************************************************************)
(* A model of the grammar pipeline of proyecto2_teoria:                    *)
(*   Grammar       (src/src/grammar.py)       productions, symbol sets     *)
(*   CNFConverter  (src/src/cnf_converter.py) the four-stage conversion    *)
(*   CYKParser     (src/src/cyk_parser.py)    table fill and parse tree    *)
(*                                                                         *)
(* Python objects are kept in a small heap: a Grammar object holds         *)
(* references to its productions dict and its two symbol sets, so that an  *)
(* in-place mutation (set.add, list.append) and a rebinding                *)
(* (self.grammar.productions = new_productions) are different things, as   *)
(* they are in the program.  A dict is an insertion-ordered sequence of    *)
(* entries [k, v]; the right-hand-side lists inside a dict are values,     *)
(* because no code path mutates a list that two dicts can reach.           *)
(***************************************************************************)
EXTENDS Integers, Sequences, FiniteSets, TLC

(***************************************************************************)
(* Bounds of the model.                                                    *)
(***************************************************************************)
\* add_production calls made on one grammar
MaxProds == 3
\* longest token sequence handed to parse
MaxLen == 3
\* calls of generate_new_variable followed on one converter
MaxNewVars == 3

(***************************************************************************)
(* Symbols.  A symbol is a string; Python's None is the value None.        *)
(***************************************************************************)
None == "None"
\* the one-character symbol 'ε' of the source
EPS == "eps"
\* self.terminals of EnglishGrammarCYK.setup_grammar: the vocabulary
EnglishWords ==
    {"he", "she", "cooks", "drinks", "eats", "cuts", "a", "the",
     "cat", "dog", "beer", "cake", "juice", "meat", "soup",
     "fork", "knife", "oven", "spoon", "in", "with"}
\* the symbols whose first character is not upper case
LowerCaseSymbols == {"a", "b", "c", "id", "+", "*", "(", ")", EPS} \cup EnglishWords
\* the tokens a caller hands to parse
Tokens == {"a", "b"}

\* symbol[0].isupper(), for the symbols of the model
IsUpper(symbol) == symbol \notin LowerCaseSymbols

RECURSIVE SeqToSet(_)
SeqToSet(s) == IF s = <<>> THEN {} ELSE {Head(s)} \cup SeqToSet(Tail(s))

\* Python's "x in list"
InList(x, list) == \E i \in 1..Len(list) : list[i] = x

(***************************************************************************)
(* dict: an insertion-ordered sequence of entries [k |-> key, v |-> value] *)
(***************************************************************************)
DictKeys(d) == {d[i].k : i \in 1..Len(d)}
DictHas(d, key) == \E i \in 1..Len(d) : d[i].k = key
DictGet(d, key) == d[CHOOSE i \in 1..Len(d) : d[i].k = key].v
\* d[key] = value: a new key goes last, an old key keeps its place
DictSet(d, key, value) ==
    IF DictHas(d, key)
    THEN [i \in 1..Len(d) |-> IF d[i].k = key THEN [k |-> key, v |-> value] ELSE d[i]]
    ELSE Append(d, [k |-> key, v |-> value])
\* defaultdict(list)[key]
DefaultGet(d, key) == IF DictHas(d, key) THEN DictGet(d, key) ELSE <<>>
\* del d[key]
DictDel(d, key) == SelectSeq(d, LAMBDA e : e.k # key)

(***************************************************************************)
(* The heap, and the program's variables.                                  *)
(***************************************************************************)
VARIABLES heap, conv, convPc, parser, parsePc, loop, tokens, result, report, fix
\* heap     the Python objects, by kind and identity:
\*            heap.grammars[g]  Grammar object g: references to its productions
\*                              dict, terminals set and non_terminals set, and
\*                              its start_symbol
\*            heap.dicts[d]     dict object d (a productions dict)
\*            heap.sets[s]      set object s (a set of symbols)
\* conv     the CNFConverter object (its fields are 0 before construction)
\* convPc   where to_cnf stands
\* parser   the CYKParser object
\* parsePc  where parse stands
\* loop     the loop variables length, i, k of _fill_table
\* tokens   the argument of the parse call in progress (or of the last one)
\* result   what the last parse call returned
\* report   what the last query of the caller's grammar (validate, is_in_cnf)
\*          returned
\* fix      the fixpoint loop of the converter that is running: its name, the
\*          set it has built so far, its flag changed, and the base and counter
\*          of generate_new_variable

vars == <<heap, conv, convPc, parser, parsePc, loop, tokens, result, report, fix>>

\* the caller's grammar: the first object constructed (grammar = Grammar())
G == 1

\* the grammar an object reference stands for, as a value
GrammarVal(h, g) ==
    [productions   |-> h.dicts[h.grammars[g].productions],
     terminals     |-> h.sets[h.grammars[g].terminals],
     non_terminals |-> h.sets[h.grammars[g].non_terminals],
     start_symbol  |-> h.grammars[g].start_symbol]

\* Grammar(): a new object with an empty dict and two empty sets of its own
Grammar(h) ==
    [grammars |-> Append(h.grammars,
                    [productions |-> Len(h.dicts) + 1, terminals |-> Len(h.sets) + 1,
                     non_terminals |-> Len(h.sets) + 2, start_symbol |-> None]),
     dicts |-> Append(h.dicts, <<>>),
     sets |-> h.sets \o <<{}, {}>>]

\* all rules of a productions dict, as the set of (left, right) pairs
Rules(productions) ==
    UNION {{<<productions[i].k, productions[i].v[j]>> : j \in 1..Len(productions[i].v)} :
        i \in 1..Len(productions)}

RECURSIVE NumRules(_)
\* sum(len(prods) for prods in productions.values())
NumRules(productions) ==
    IF productions = <<>> THEN 0
    ELSE Len(Head(productions).v) + NumRules(Tail(productions))

(***************************************************************************)
(* Grammar (src/src/grammar.py)                                            *)
(***************************************************************************)
\* the symbols of right that add_production classifies as terminals
ClassifiedTerminals(right) ==
    {right[i] : i \in {n \in 1..Len(right) : ~IsUpper(right[n])}}

\* Grammar.add_production on the object g: the heap it leaves
add_production(h, g, left, right) ==
    [h EXCEPT !.dicts[h.grammars[g].productions] =
                    DictSet(@, left, Append(DefaultGet(@, left), right)),
              !.sets[h.grammars[g].non_terminals] = @ \cup {left},
              !.sets[h.grammars[g].terminals] = @ \cup ClassifiedTerminals(right)]

\* Grammar.set_start_symbol on the object g: the heap it leaves
set_start_symbol(h, g, symbol) ==
    [h EXCEPT !.grammars[g].start_symbol = symbol,
              !.sets[h.grammars[g].non_terminals] = @ \cup {symbol}]

\* a faulty ProdInCnf that lets every non-terminal have an empty right-hand side
ProdInCnf_any_empty(gv, var, prod) ==
    CASE Len(prod) = 0 -> TRUE
      [] Len(prod) = 1 -> prod[1] \in gv.terminals
      [] Len(prod) = 2 -> prod[1] \in gv.non_terminals /\ prod[2] \in gv.non_terminals
      [] OTHER -> FALSE

\* the check is_in_cnf makes of one right-hand side
ProdInCnf(gv, var, prod) ==
    CASE Len(prod) = 0 -> var = gv.start_symbol
      [] Len(prod) = 1 -> prod[1] \in gv.terminals
      [] Len(prod) = 2 -> prod[1] \in gv.non_terminals /\ prod[2] \in gv.non_terminals
      [] OTHER -> FALSE

\* Grammar.is_in_cnf
is_in_cnf(gv) ==
    /\ gv.start_symbol # None
    /\ \A r \in Rules(gv.productions) : ProdInCnf(gv, r[1], r[2])

\* the symbols validate collects in used_non_terminals
used_non_terminals(gv) ==
    {symbol \in UNION {SeqToSet(r[2]) : r \in Rules(gv.productions)} :
        symbol \notin gv.terminals /\ symbol # ""}

\* the entries of the error list of validate: what is wrong, and the symbols
\* the message names
Error(error, about) == [error |-> error, about |-> about]

\* a faulty validate that returns at the first error it finds
validate_first_error(gv) ==
    LET undefined == used_non_terminals(gv) \ DictKeys(gv.productions)
    IN IF gv.start_symbol = None THEN <<Error("no_start", {})>>
       ELSE IF gv.productions = <<>> THEN <<Error("no_productions", {})>>
       ELSE IF ~DictHas(gv.productions, gv.start_symbol)
            THEN <<Error("start_without_productions", {gv.start_symbol})>>
       ELSE IF undefined # {} THEN <<Error("undefined", undefined)>>
       ELSE <<>>

\* Grammar.validate: the list errors it returns (the first component of its
\* return value is len(errors) == 0)
validate(gv) ==
    LET undefined == used_non_terminals(gv) \ DictKeys(gv.productions)
    IN (IF gv.start_symbol = None THEN <<Error("no_start", {})>> ELSE <<>>) \o
       (IF gv.productions = <<>> THEN <<Error("no_productions", {})>> ELSE <<>>) \o
       (IF gv.start_symbol # None /\ ~DictHas(gv.productions, gv.start_symbol)
        THEN <<Error("start_without_productions", {gv.start_symbol})>> ELSE <<>>) \o
       (IF undefined # {} THEN <<Error("undefined", undefined)>> ELSE <<>>)

\* a faulty Grammar.copy that shares the two sets and the dict with the object
\* it copies
copy_shared(h, g) ==
    [h EXCEPT !.grammars = Append(@, h.grammars[g])]

\* Grammar.copy of the object g: a new Grammar object (the last of the heap it
\* leaves) with copies of the two sets and a deep copy of the productions
copy(h, g) ==
    [grammars |-> Append(h.grammars,
                    [productions |-> Len(h.dicts) + 1, terminals |-> Len(h.sets) + 1,
                     non_terminals |-> Len(h.sets) + 2,
                     start_symbol |-> h.grammars[g].start_symbol]),
     dicts |-> Append(h.dicts, h.dicts[h.grammars[g].productions]),
     sets |-> h.sets \o <<h.sets[h.grammars[g].terminals],
                          h.sets[h.grammars[g].non_terminals]>>]

(***************************************************************************)
(* CNFConverter (src/src/cnf_converter.py)                                 *)
(***************************************************************************)
\* f"{base}{self.new_var_counter}"
VarName(base, n) == base \o ToString(n)

\* a faulty generate_new_variable that returns its first candidate
generate_new_variable_unchecked(base, counter, non_terminals) ==
    [var |-> VarName(base, counter), counter |-> counter + 1]

RECURSIVE generate_new_variable(_, _, _)
\* CNFConverter.generate_new_variable: the variable returned and the counter left
generate_new_variable(base, counter, non_terminals) ==
    IF VarName(base, counter) \notin non_terminals
    THEN [var |-> VarName(base, counter), counter |-> counter + 1]
    ELSE generate_new_variable(base, counter + 1, non_terminals)

\* a faulty IsEpsilonProd that overlooks the written epsilon ['ε']
IsEpsilonProd_empty_only(prod) == prod = <<>>

\* a right-hand side that find_nullable_symbols and eliminate_epsilon_productions
\* take for an epsilon production
IsEpsilonProd(prod) == prod = <<>> \/ prod = <<EPS>>

\* all(symbol in symbols for symbol in prod)
AllIn(prod, symbols) == \A n \in 1..Len(prod) : prod[n] \in symbols

RECURSIVE NullablePass(_, _, _)
\* one pass of the propagation loop of find_nullable_symbols, from entry i on
NullablePass(productions, i, nullable) ==
    IF i > Len(productions) THEN nullable
    ELSE NullablePass(productions, i + 1,
            IF /\ productions[i].k \notin nullable
               /\ \E j \in 1..Len(productions[i].v) :
                    productions[i].v[j] # <<>> /\ AllIn(productions[i].v[j], nullable)
            THEN nullable \cup {productions[i].k}
            ELSE nullable)

RECURSIVE NullableLoop(_, _)
\* while changed: ... of find_nullable_symbols
NullableLoop(productions, nullable) ==
    LET next == NullablePass(productions, 1, nullable)
    IN IF next = nullable THEN nullable ELSE NullableLoop(productions, next)

\* CNFConverter.find_nullable_symbols
find_nullable_symbols(gv) ==
    NullableLoop(gv.productions,
        {r[1] : r \in {q \in Rules(gv.productions) : IsEpsilonProd(q[2])}})

\* mask & (1 << i)
Bit(mask, i) == (mask \div (2 ^ i)) % 2 = 1

RECURSIVE MaskCombination(_, _, _)
\* the symbols of production that mask keeps, from position i (0-based) on
MaskCombination(production, mask, i) ==
    IF i >= Len(production) THEN <<>>
    ELSE (IF Bit(mask, i) THEN <<production[i + 1]>> ELSE <<>>)
            \o MaskCombination(production, mask, i + 1)

\* combination is not None: every symbol the mask drops is nullable
MaskValid(production, nullable, mask) ==
    \A i \in 0..(Len(production) - 1) : Bit(mask, i) \/ production[i + 1] \in nullable

\* list.append(x) unless x is in the list already
AppendNew(list, x) == IF InList(x, list) THEN list ELSE Append(list, x)

RECURSIVE ExtendNew(_, _)
\* AppendNew of every element of xs, in order
ExtendNew(list, xs) ==
    IF xs = <<>> THEN list ELSE ExtendNew(AppendNew(list, Head(xs)), Tail(xs))

RECURSIVE Combinations(_, _, _, _)
\* the masks mask..2^n-1 of generate_nullable_combinations, duplicates dropped
Combinations(production, nullable, mask, acc) ==
    IF mask >= 2 ^ Len(production) THEN acc
    ELSE Combinations(production, nullable, mask + 1,
            IF /\ MaskValid(production, nullable, mask)
               /\ MaskCombination(production, mask, 0) # <<>>
            THEN AppendNew(acc, MaskCombination(production, mask, 0))
            ELSE acc)

\* CNFConverter.generate_nullable_combinations
generate_nullable_combinations(production, nullable) ==
    IF production = <<>> THEN << <<>> >>
    ELSE Combinations(production, nullable, 0, <<>>)

RECURSIVE EpsilonFree(_, _, _)
\* the list new_productions[var] that eliminate_epsilon_productions builds
EpsilonFree(prods, nullable, acc) ==
    IF prods = <<>> THEN acc
    ELSE EpsilonFree(Tail(prods), nullable,
            IF ~IsEpsilonProd(Head(prods))
            THEN ExtendNew(acc, SelectSeq(generate_nullable_combinations(Head(prods), nullable),
                                          LAMBDA c : c # <<>>))
            ELSE acc)

\* CNFConverter.eliminate_epsilon_productions on the grammar value gv with the
\* counter new_var_counter: the dict, start symbol, fresh variable and counter left
EpsilonStage(gv, counter) ==
    LET nullable == find_nullable_symbols(gv)
        body == [i \in 1..Len(gv.productions) |->
                    [k |-> gv.productions[i].k,
                     v |-> EpsilonFree(gv.productions[i].v, nullable, <<>>)]]
        fresh == generate_new_variable("S", counter, gv.non_terminals)
    IN IF gv.start_symbol \in nullable
       THEN [productions |->
                DictSet(body, fresh.var,
                    IF DictGet(body, gv.start_symbol) = <<>>
                    THEN << <<gv.start_symbol>>, <<>> >>
                    ELSE << <<gv.start_symbol>> >>),
             start_symbol |-> fresh.var,
             added |-> {fresh.var},
             counter |-> fresh.counter]
       ELSE [productions |-> body, start_symbol |-> gv.start_symbol,
             added |-> {}, counter |-> counter]

\* len(prod) == 1 and prod[0] in self.grammar.non_terminals
IsUnitProd(prod, non_terminals) == Len(prod) = 1 /\ prod[1] \in non_terminals

\* a faulty UnitClosure that leaves out the transitive-closure loop
UnitClosure_direct(unit_pairs) == unit_pairs

RECURSIVE UnitClosure(_)
\* the transitive-closure loop of find_unit_productions
UnitClosure(unit_pairs) ==
    LET new_pairs == {<<x[1][1], x[2][2]>> :
                        x \in {y \in unit_pairs \X unit_pairs : y[1][2] = y[2][1]}}
    IN IF new_pairs \subseteq unit_pairs THEN unit_pairs
       ELSE UnitClosure(unit_pairs \cup new_pairs)

\* CNFConverter.find_unit_productions
find_unit_productions(gv) ==
    UnitClosure({<<r[1], r[2][1]>> :
        r \in {q \in Rules(gv.productions) : IsUnitProd(q[2], gv.non_terminals)}})

\* the orders in which iterating a Python set can yield its members
Orders(S) ==
    {f \in [1..Cardinality(S) -> S] : \A m, n \in 1..Cardinality(S) : f[m] = f[n] => m = n}

\* a faulty NonUnitInto that keeps the unit right-hand sides
NonUnitInto_all(acc, prods, non_terminals) == ExtendNew(acc, prods)

\* the non-unit right-hand sides of prods appended to acc, duplicates dropped
NonUnitInto(acc, prods, non_terminals) ==
    ExtendNew(acc, SelectSeq(prods, LAMBDA prod : ~IsUnitProd(prod, non_terminals)))

RECURSIVE UnitTargetsInto(_, _, _, _)
\* the loop "for a, b in unit_pairs: if a == var" with the pairs of var met in
\* the order targets
UnitTargetsInto(acc, targets, gv, n) ==
    IF n > Len(targets) THEN acc
    ELSE UnitTargetsInto(
            NonUnitInto(acc, DictGet(gv.productions, targets[n]), gv.non_terminals),
            targets, gv, n + 1)

\* the lists new_productions[var] that eliminate_unit_productions can build,
\* one for every order in which the set unit_pairs can be iterated
UnitLists(gv, unit_pairs, var) ==
    {UnitTargetsInto(NonUnitInto(<<>>, DictGet(gv.productions, var), gv.non_terminals),
                     targets, gv, 1) :
        targets \in Orders({p[2] : p \in {q \in unit_pairs : q[1] = var}})}

RECURSIVE UnitDicts(_, _, _)
\* the dicts new_productions that eliminate_unit_productions can build, from
\* entry i on
UnitDicts(gv, unit_pairs, i) ==
    IF i > Len(gv.productions) THEN {<<>>}
    ELSE {<<[k |-> gv.productions[i].k, v |-> list]>> \o rest :
            list \in UnitLists(gv, unit_pairs, gv.productions[i].k),
            rest \in UnitDicts(gv, unit_pairs, i + 1)}

\* self.grammar.productions[b] raises KeyError in eliminate_unit_productions:
\* some unit pair leads to a non-terminal that is no key of the (plain) dict
UnitStageRaises(gv) ==
    \E p \in find_unit_productions(gv) : ~DictHas(gv.productions, p[2])

\* CNFConverter.eliminate_unit_productions: the dicts it can leave
UnitStage(gv) == UnitDicts(gv, find_unit_productions(gv), 1)

RECURSIVE GeneratingPass_empty_counts(_, _, _)
\* a faulty GeneratingPass that takes an empty right-hand side for generating
GeneratingPass_empty_counts(productions, i, generating) ==
    IF i > Len(productions) THEN generating
    ELSE GeneratingPass_empty_counts(productions, i + 1,
            IF /\ productions[i].k \notin generating
               /\ \E j \in 1..Len(productions[i].v) : AllIn(productions[i].v[j], generating)
            THEN generating \cup {productions[i].k}
            ELSE generating)

RECURSIVE GeneratingPass(_, _, _)
\* one pass of the loop of find_generating_symbols, from entry i on
GeneratingPass(productions, i, generating) ==
    IF i > Len(productions) THEN generating
    ELSE GeneratingPass(productions, i + 1,
            IF /\ productions[i].k \notin generating
               /\ \E j \in 1..Len(productions[i].v) :
                    productions[i].v[j] # <<>> /\ AllIn(productions[i].v[j], generating)
            THEN generating \cup {productions[i].k}
            ELSE generating)

RECURSIVE GeneratingLoop(_, _)
\* while changed: ... of find_generating_symbols
GeneratingLoop(productions, generating) ==
    LET next == GeneratingPass(productions, 1, generating)
    IN IF next = generating THEN generating ELSE GeneratingLoop(productions, next)

\* a faulty find_generating_symbols that starts from set() and not from the
\* terminals
find_generating_symbols_unseeded(gv) == GeneratingLoop(gv.productions, {})

\* CNFConverter.find_generating_symbols
find_generating_symbols(gv) == GeneratingLoop(gv.productions, gv.terminals)

RECURSIVE ReachableLoop(_, _)
\* while changed: ... of find_reachable_symbols
ReachableLoop(productions, reachable) ==
    LET new_reachable ==
            UNION {SeqToSet(r[2]) : r \in {q \in Rules(productions) : q[1] \in reachable}}
    IN IF new_reachable \subseteq reachable THEN reachable
       ELSE ReachableLoop(productions, reachable \cup new_reachable)

\* CNFConverter.find_reachable_symbols
find_reachable_symbols(gv) == ReachableLoop(gv.productions, {gv.start_symbol})

\* a faulty FilterGenerating that keeps every production of a generating
\* variable
FilterGenerating_keys_only(productions, generating) ==
    SelectSeq(productions, LAMBDA e : e.k \in generating)

\* filtered_productions of eliminate_useless_symbols
FilterGenerating(productions, generating) ==
    LET kept == SelectSeq(productions, LAMBDA e : e.k \in generating)
    IN [i \in 1..Len(kept) |->
            [k |-> kept[i].k,
             v |-> SelectSeq(kept[i].v, LAMBDA prod : AllIn(prod, generating))]]

\* final_productions of eliminate_useless_symbols
FilterReachable(productions, reachable) ==
    SelectSeq(productions, LAMBDA e : e.k \in reachable)

\* CNFConverter.eliminate_useless_symbols: the two dicts it binds in turn and
\* the set it binds to non_terminals
UselessStage(gv) ==
    LET filtered == FilterGenerating(gv.productions, find_generating_symbols(gv))
        final == FilterReachable(filtered,
                    find_reachable_symbols([gv EXCEPT !.productions = filtered]))
    IN [filtered |-> filtered, final |-> final, non_terminals |-> DictKeys(final)]

RECURSIVE convert_long_production(_, _, _, _, _)
\* CNFConverter._convert_long_production: the dict and the counter it leaves and
\* the variables it adds to non_terminals when its calls return
convert_long_production(var, production, productions_dict, counter, non_terminals) ==
    IF Len(production) <= 2
    THEN [productions |-> DictSet(productions_dict, var,
                            AppendNew(DefaultGet(productions_dict, var), production)),
          counter |-> counter, added |-> {}]
    ELSE LET fresh == generate_new_variable("Y", counter, non_terminals)
             rest == convert_long_production(fresh.var, Tail(production),
                        DictSet(productions_dict, var,
                            Append(DefaultGet(productions_dict, var),
                                   <<production[1], fresh.var>>)),
                        fresh.counter, non_terminals)
         IN [rest EXCEPT !.added = @ \cup {fresh.var}]

RECURSIVE BinaryProds(_, _, _, _, _)
\* the loop "for prod in productions" of convert_to_binary_form, from prod n on;
\* st holds the dict new_productions, the counter and the variables added
BinaryProds(var, prods, n, st, non_terminals) ==
    IF n > Len(prods) THEN st
    ELSE BinaryProds(var, prods, n + 1,
            IF Len(prods[n]) <= 2
            THEN [st EXCEPT !.productions =
                    DictSet(@, var, Append(DictGet(@, var), prods[n]))]
            ELSE LET r == convert_long_production(var, prods[n], st.productions,
                             st.counter, non_terminals \cup st.added)
                 IN [productions |-> r.productions, counter |-> r.counter,
                     added |-> st.added \cup r.added],
            non_terminals)

RECURSIVE BinaryEntries(_, _, _, _)
\* the loop "for var, productions in ...items()" of convert_to_binary_form
BinaryEntries(productions, i, st, non_terminals) ==
    IF i > Len(productions) THEN st
    ELSE BinaryEntries(productions, i + 1,
            BinaryProds(productions[i].k, productions[i].v, 1,
                [st EXCEPT !.productions = DictSet(@, productions[i].k, <<>>)],
                non_terminals),
            non_terminals)

\* CNFConverter.convert_to_binary_form: the dict and counter it leaves and the
\* variables it adds to non_terminals
BinaryStage(gv, counter) ==
    BinaryEntries(gv.productions, 1,
        [productions |-> <<>>, counter |-> counter, added |-> {}], gv.non_terminals)

(***************************************************************************)
(* CYKParser (src/src/cyk_parser.py)                                       *)
(***************************************************************************)
\* ParseTree(symbol, span, is_terminal) with its children
ParseTree(symbol, span, is_terminal, children) ==
    [symbol |-> symbol, span |-> span, is_terminal |-> is_terminal, children |-> children]

\* the Optional[ParseTree] value None
NoTree == ParseTree(None, <<>>, FALSE, <<>>)

\* self.table, self.parse_table and self.sentence before the first parse (None)
NoTable == <<>>

\* the index terminal_producers of _precompute_production_maps
TerminalProducers(gv) ==
    LET unary == {r \in Rules(gv.productions) : Len(r[2]) = 1 /\ r[2][1] \in gv.terminals}
    IN [terminal \in {r[2][1] : r \in unary} |->
            {r[1] : r \in {q \in unary : q[2][1] = terminal}}]

\* the index binary_producers of _precompute_production_maps
BinaryProducers(gv) ==
    LET binary == {r \in Rules(gv.productions) : Len(r[2]) = 2}
    IN [pair \in {<<r[2][1], r[2][2]>> : r \in binary} |->
            {r[1] : r \in {q \in binary : <<q[2][1], q[2][2]>> = pair}}]

\* CYKParser.__init__ over the Grammar object g
CYKParser(h, g) ==
    [grammar |-> g, table |-> NoTable, parse_table |-> NoTable, sentence |-> NoTable,
     terminal_producers |-> TerminalProducers(GrammarVal(h, g)),
     binary_producers |-> BinaryProducers(GrammarVal(h, g))]

\* [[set() for _ in range(n)] for _ in range(n)]
EmptyTable(n) == [i \in 0..(n - 1) |-> [j \in 0..(n - 1) |-> {}]]
\* [[{} for _ in range(n)] for _ in range(n)]
EmptyParseTable(n) == [i \in 0..(n - 1) |-> [j \in 0..(n - 1) |-> <<>>]]

\* a faulty DiagonalCell that gives a token without producers the producers of
\* every terminal
DiagonalCell_any_terminal(p, i) ==
    IF p.sentence[i + 1] \in DOMAIN p.terminal_producers
    THEN p.table[i][i] \cup p.terminal_producers[p.sentence[i + 1]]
    ELSE p.table[i][i] \cup
            UNION {p.terminal_producers[t] : t \in DOMAIN p.terminal_producers}

\* the cell table[i][i] that _fill_diagonal leaves for the token at position i
DiagonalCell(p, i) ==
    IF p.sentence[i + 1] \in DOMAIN p.terminal_producers
    THEN p.table[i][i] \cup p.terminal_producers[p.sentence[i + 1]]
    ELSE p.table[i][i]

\* a faulty DiagonalBack that records no backpointer
DiagonalBack_unrecorded(p, i) == p.parse_table[i][i]

\* the backpointers parse_table[i][i] that _fill_diagonal leaves at position i
DiagonalBack(p, i) ==
    IF p.sentence[i + 1] \in DOMAIN p.terminal_producers
    THEN [var \in p.terminal_producers[p.sentence[i + 1]] |->
            [kind |-> "terminal", terminal |-> p.sentence[i + 1]]] @@ p.parse_table[i][i]
    ELSE p.parse_table[i][i]

\* CYKParser._fill_diagonal: the parser it leaves
fill_diagonal(p) ==
    [p EXCEPT
        !.table = [i \in DOMAIN p.table |->
                        [p.table[i] EXCEPT ![i] = DiagonalCell(p, i)]],
        !.parse_table = [i \in DOMAIN p.parse_table |->
                        [p.parse_table[i] EXCEPT ![i] = DiagonalBack(p, i)]]]

\* the pairs (left_var, right_var) of one split point in the order the two
\* nested loops of _fill_table meet them, left_order and right_order being the
\* orders in which the two cells are iterated
PairSeq(left_order, right_order) ==
    [n \in 1..(Len(left_order) * Len(right_order)) |->
        <<left_order[((n - 1) \div Len(right_order)) + 1],
          right_order[((n - 1) % Len(right_order)) + 1]>>]

\* the producers of a pair (none when the pair is no key of binary_producers)
ProducersOf(p, pair) ==
    IF pair \in DOMAIN p.binary_producers THEN p.binary_producers[pair] ELSE {}

\* the first pair of pairs that has producer_var among its producers
FirstPair(p, pairs, producer_var) ==
    pairs[CHOOSE n \in 1..Len(pairs) :
            /\ producer_var \in ProducersOf(p, pairs[n])
            /\ \A m \in 1..(n - 1) : producer_var \notin ProducersOf(p, pairs[m])]

\* a faulty fill_split that writes the cell [j][i] for the cell [i][j]
fill_split_transposed(p, i, j, k, left_order, right_order) ==
    LET pairs == PairSeq(left_order, right_order)
        new == (UNION {ProducersOf(p, pairs[n]) : n \in 1..Len(pairs)}) \ p.table[j][i]
    IN [p EXCEPT
            !.table[j][i] = @ \cup new,
            !.parse_table[j][i] =
                [producer_var \in new |->
                    [kind |-> "production",
                     left_var |-> FirstPair(p, pairs, producer_var)[1],
                     right_var |-> FirstPair(p, pairs, producer_var)[2],
                     k |-> k]] @@ @]

\* a faulty fill_split that records the two symbols of the pair in the wrong
\* places
fill_split_swapped(p, i, j, k, left_order, right_order) ==
    LET pairs == PairSeq(left_order, right_order)
        new == (UNION {ProducersOf(p, pairs[n]) : n \in 1..Len(pairs)}) \ p.table[i][j]
    IN [p EXCEPT
            !.table[i][j] = @ \cup new,
            !.parse_table[i][j] =
                [producer_var \in new |->
                    [kind |-> "production",
                     left_var |-> FirstPair(p, pairs, producer_var)[2],
                     right_var |-> FirstPair(p, pairs, producer_var)[1],
                     k |-> k]] @@ @]

\* a faulty fill_split that records the backpointer of every candidate, also
\* of a producer the cell already holds
fill_split_overwrite(p, i, j, k, left_order, right_order) ==
    LET pairs == PairSeq(left_order, right_order)
        found == UNION {ProducersOf(p, pairs[n]) : n \in 1..Len(pairs)}
    IN [p EXCEPT
            !.table[i][j] = @ \cup found,
            !.parse_table[i][j] =
                [producer_var \in found |->
                    [kind |-> "production",
                     left_var |-> FirstPair(p, pairs, producer_var)[1],
                     right_var |-> FirstPair(p, pairs, producer_var)[2],
                     k |-> k]] @@ @]

\* one iteration of the loop "for k in range(i, j)" of _fill_table: the
\* parser it leaves
fill_split(p, i, j, k, left_order, right_order) ==
    LET pairs == PairSeq(left_order, right_order)
        new == (UNION {ProducersOf(p, pairs[n]) : n \in 1..Len(pairs)}) \ p.table[i][j]
    IN [p EXCEPT
            !.table[i][j] = @ \cup new,
            !.parse_table[i][j] =
                [producer_var \in new |->
                    [kind |-> "production",
                     left_var |-> FirstPair(p, pairs, producer_var)[1],
                     right_var |-> FirstPair(p, pairs, producer_var)[2],
                     k |-> k]] @@ @]

RECURSIVE construct_parse_tree(_, _, _, _)
\* CYKParser._construct_parse_tree
construct_parse_tree(p, i, j, var) ==
    IF i > j \/ var \notin DOMAIN p.parse_table[i][j] THEN NoTree
    ELSE LET entry == p.parse_table[i][j][var]
         IN IF entry.kind = "terminal"
            THEN ParseTree(var, <<i, j>>, FALSE,
                    <<ParseTree(entry.terminal, <<i, i>>, TRUE, <<>>)>>)
            ELSE LET left_tree == construct_parse_tree(p, i, entry.k, entry.left_var)
                     right_tree == construct_parse_tree(p, entry.k + 1, j, entry.right_var)
                 IN ParseTree(var, <<i, j>>, FALSE,
                        (IF left_tree # NoTree THEN <<left_tree>> ELSE <<>>) \o
                        (IF right_tree # NoTree THEN <<right_tree>> ELSE <<>>))

\* the loop variables of the first iteration of _fill_table for n tokens, and
\* those of the iteration after (length, i, k); length = 0 when the loops end
NoLoop == [length |-> 0, i |-> 0, k |-> 0]
FirstLoop(n) == IF n >= 2 THEN [length |-> 2, i |-> 0, k |-> 0] ELSE NoLoop
NextLoop(n, l) ==
    CASE l.k + 1 < l.i + l.length - 1 -> [l EXCEPT !.k = @ + 1]
      [] l.k + 1 >= l.i + l.length - 1 /\ l.i + 1 < n - l.length + 1 ->
            [l EXCEPT !.i = @ + 1, !.k = l.i + 1]
      [] l.k + 1 >= l.i + l.length - 1 /\ l.i + 1 >= n - l.length + 1
            /\ l.length + 1 < n + 1 -> [length |-> l.length + 1, i |-> 0, k |-> 0]
      [] OTHER -> NoLoop

(***************************************************************************)
(* The callers' inputs.                                                    *)
(***************************************************************************)
Rule(left, right) == [left |-> left, right |-> right]

\* the productions a caller adds to a grammar it hands to the converter
ProdMenu ==
    << Rule("S", <<>>), Rule("S", <<"a">>), Rule("S", <<"A">>), Rule("S", <<"a", "b">>),
       Rule("S", <<"A", "B">>), Rule("S", <<"A", "S", "B">>), Rule("S", <<"a", "S", "b">>),
       Rule("A", <<"a">>), Rule("A", <<EPS>>), Rule("A", <<"B">>), Rule("A", <<"S">>),
       Rule("A", <<"A", "A">>), Rule("B", <<>>), Rule("B", <<"b">>), Rule("B", <<"c">>), Rule("B", <<"A">>),
       Rule("Y0", <<"b">>) >>

\* the productions a caller adds to a grammar it hands to the parser
CykMenu ==
    << Rule("S", <<>>), Rule("S", <<"a">>), Rule("S", <<"a", "b">>),
       Rule("S", <<"S", "A">>), Rule("S", <<"A", "B">>),
       Rule("A", <<"a">>), Rule("B", <<"b">>) >>

\* the start symbols a caller sets
StartMenu == {"S"}

\* the token sequences a caller hands to parse
Sentences == UNION {[1..n -> Tokens] : n \in 0..MaxLen}

\* the place of a rule in a menu (0 when it is not of the menu)
MenuIndex(menu, r) ==
    IF \E n \in 1..Len(menu) : menu[n] = Rule(r[1], r[2])
    THEN CHOOSE n \in 1..Len(menu) : menu[n] = Rule(r[1], r[2])
    ELSE 0

(***************************************************************************)
(* The state after construction, and the operations.                       *)
(***************************************************************************)
NoConverter == [original_grammar |-> 0, grammar |-> 0, new_var_counter |-> 0,
                step_counter |-> 0]
NoParser == [grammar |-> 0, table |-> NoTable, parse_table |-> NoTable,
             sentence |-> NoTable, terminal_producers |-> <<>>,
             binary_producers |-> <<>>]
NoResult == [returned |-> FALSE, accepted |-> FALSE, tree |-> NoTree]
NoReport == [op |-> "none", ok |-> FALSE, errors |-> <<>>]
NoFix == [loop |-> "none", set |-> {}, changed |-> FALSE, base |-> "", counter |-> 0]

\* grammar = Grammar()
Init ==
    /\ heap = Grammar([grammars |-> <<>>, dicts |-> <<>>, sets |-> <<>>])
    /\ conv = NoConverter
    /\ convPc = "none"
    /\ parser = NoParser
    /\ parsePc = "none"
    /\ loop = NoLoop
    /\ tokens = <<>>
    /\ result = NoResult
    /\ report = NoReport
    /\ fix = NoFix

\* the caller is still building its grammar
Building == convPc = "none" /\ parsePc = "none"

\* grammar.add_production(left, right), the n-th rule of the menu; a caller adds
\* its rules in the order of the menu
AddProduction(menu, n) ==
    /\ Building
    /\ NumRules(GrammarVal(heap, G).productions) < MaxProds
    /\ \A r \in Rules(GrammarVal(heap, G).productions) : MenuIndex(menu, r) <= n
    /\ heap' = add_production(heap, G, menu[n].left, menu[n].right)
    /\ UNCHANGED <<conv, convPc, parser, parsePc, loop, tokens, result, report, fix>>

\* grammar.set_start_symbol(symbol)
SetStartSymbol(symbol) ==
    /\ Building
    /\ heap.grammars[G].start_symbol = None
    /\ heap' = set_start_symbol(heap, G, symbol)
    /\ UNCHANGED <<conv, convPc, parser, parsePc, loop, tokens, result, report, fix>>

\* converter = CNFConverter(grammar)
NewConverter ==
    /\ Building
    /\ heap' = copy(copy(heap, G), G)
    /\ conv' = [original_grammar |-> Len(heap.grammars) + 1,
                grammar |-> Len(heap.grammars) + 2,
                new_var_counter |-> 0, step_counter |-> 1]
    /\ convPc' = "to_cnf"
    /\ UNCHANGED <<parser, parsePc, loop, tokens, result, report, fix>>

\* converter.to_cnf() up to the return of eliminate_epsilon_productions
EliminateEpsilon ==
    /\ convPc = "to_cnf"
    /\ LET g == conv.grammar
           r == EpsilonStage(GrammarVal(heap, g), conv.new_var_counter)
       IN /\ heap' = [heap EXCEPT
                        !.grammars[g].start_symbol = r.start_symbol,
                        !.sets[heap.grammars[g].non_terminals] = @ \cup r.added,
                        !.dicts = Append(@, r.productions),
                        !.grammars[g].productions = Len(heap.dicts) + 1]
          /\ conv' = [conv EXCEPT !.new_var_counter = r.counter, !.step_counter = @ + 1]
    /\ convPc' = "unit"
    /\ UNCHANGED <<parser, parsePc, loop, tokens, result, report, fix>>

\* eliminate_unit_productions, called by to_cnf; a KeyError ends to_cnf
EliminateUnit ==
    /\ convPc = "unit"
    /\ LET g == conv.grammar
       IN IF UnitStageRaises(GrammarVal(heap, g))
          THEN /\ convPc' = "raised"
               /\ UNCHANGED heap
          ELSE /\ convPc' = "useless"
               /\ \E new_productions \in UnitStage(GrammarVal(heap, g)) :
                    heap' = [heap EXCEPT
                                !.dicts = Append(@, new_productions),
                                !.grammars[g].productions = Len(heap.dicts) + 1]
    /\ conv' = [conv EXCEPT !.step_counter = @ + 1]
    /\ UNCHANGED <<parser, parsePc, loop, tokens, result, report, fix>>

\* eliminate_useless_symbols, called by to_cnf
EliminateUseless ==
    /\ convPc = "useless"
    /\ LET g == conv.grammar
           r == UselessStage(GrammarVal(heap, g))
       IN heap' = [heap EXCEPT
                        !.dicts = @ \o <<r.filtered, r.final>>,
                        !.grammars[g].productions = Len(heap.dicts) + 2,
                        !.sets = Append(@, r.non_terminals),
                        !.grammars[g].non_terminals = Len(heap.sets) + 1]
    /\ conv' = [conv EXCEPT !.step_counter = @ + 1]
    /\ convPc' = "binary"
    /\ UNCHANGED <<parser, parsePc, loop, tokens, result, report, fix>>

\* convert_to_binary_form, called by to_cnf, and the return of to_cnf
ConvertToBinary ==
    /\ convPc = "binary"
    /\ LET g == conv.grammar
           r == BinaryStage(GrammarVal(heap, g), conv.new_var_counter)
       IN /\ heap' = [heap EXCEPT
                        !.sets[heap.grammars[g].non_terminals] = @ \cup r.added,
                        !.dicts = Append(@, r.productions),
                        !.grammars[g].productions = Len(heap.dicts) + 1]
          /\ conv' = [conv EXCEPT !.new_var_counter = r.counter, !.step_counter = @ + 1]
    /\ convPc' = "returned"
    /\ UNCHANGED <<parser, parsePc, loop, tokens, result, report, fix>>

\* parser = CYKParser(g)
NewParser(g) ==
    /\ parsePc = "none"
    /\ parser' = CYKParser(heap, g)
    /\ parsePc' = "idle"
    /\ UNCHANGED <<heap, conv, convPc, loop, tokens, result, report, fix>>

\* a faulty parse that resets sentence and tables before it tests for the empty
\* sentence
Parse_reset_first(sentence) ==
    /\ parsePc = "idle"
    /\ tokens' = sentence
    /\ parser' = [parser EXCEPT !.sentence = sentence,
                                !.table = EmptyTable(Len(sentence)),
                                !.parse_table = EmptyParseTable(Len(sentence))]
    /\ IF sentence = <<>>
       THEN /\ result' = [returned |-> TRUE, accepted |-> FALSE, tree |-> NoTree]
            /\ UNCHANGED parsePc
       ELSE /\ parsePc' = "diagonal"
            /\ result' = NoResult
    /\ UNCHANGED <<heap, conv, convPc, loop, report, fix>>

\* a faulty parse that keeps the tables of the previous call when the new
\* sentence has the length of the previous one
Parse_keep_table(sentence) ==
    /\ parsePc = "idle"
    /\ tokens' = sentence
    /\ IF sentence = <<>>
       THEN /\ result' = [returned |-> TRUE, accepted |-> FALSE, tree |-> NoTree]
            /\ UNCHANGED <<parser, parsePc>>
       ELSE /\ parser' = IF Len(parser.sentence) = Len(sentence)
                         THEN [parser EXCEPT !.sentence = sentence]
                         ELSE [parser EXCEPT !.sentence = sentence,
                                             !.table = EmptyTable(Len(sentence)),
                                             !.parse_table = EmptyParseTable(Len(sentence))]
            /\ parsePc' = "diagonal"
            /\ result' = NoResult
    /\ UNCHANGED <<heap, conv, convPc, loop, report, fix>>

\* parser.parse(sentence) up to the call of _fill_diagonal, or to its return
\* for an empty sentence
Parse(sentence) ==
    /\ parsePc = "idle"
    /\ tokens' = sentence
    /\ IF sentence = <<>>
       THEN /\ result' = [returned |-> TRUE, accepted |-> FALSE, tree |-> NoTree]
            /\ UNCHANGED <<parser, parsePc>>
       ELSE /\ parser' = [parser EXCEPT !.sentence = sentence,
                                        !.table = EmptyTable(Len(sentence)),
                                        !.parse_table = EmptyParseTable(Len(sentence))]
            /\ parsePc' = "diagonal"
            /\ result' = NoResult
    /\ UNCHANGED <<heap, conv, convPc, loop, report, fix>>

\* _fill_diagonal, called by parse
FillDiagonal ==
    /\ parsePc = "diagonal"
    /\ parser' = fill_diagonal(parser)
    /\ loop' = FirstLoop(Len(parser.sentence))
    /\ parsePc' = IF FirstLoop(Len(parser.sentence)) = NoLoop THEN "finish" ELSE "fill"
    /\ UNCHANGED <<heap, conv, convPc, tokens, result, report, fix>>

\* one split point k of _fill_table, called by parse
FillTable ==
    /\ parsePc = "fill"
    /\ LET i == loop.i
           j == loop.i + loop.length - 1
           k == loop.k
       IN \E left_order \in Orders(parser.table[i][k]),
             right_order \in Orders(parser.table[k + 1][j]) :
            parser' = fill_split(parser, i, j, k, left_order, right_order)
    /\ loop' = NextLoop(Len(parser.sentence), loop)
    /\ parsePc' = IF NextLoop(Len(parser.sentence), loop) = NoLoop THEN "finish" ELSE "fill"
    /\ UNCHANGED <<heap, conv, convPc, tokens, result, report, fix>>

\* the end of parse: acceptance, the parse tree, and the return
ParseReturn ==
    /\ parsePc = "finish"
    /\ LET n == Len(parser.sentence)
           start == heap.grammars[parser.grammar].start_symbol
           accepted == start \in parser.table[0][n - 1]
       IN result' = [returned |-> TRUE, accepted |-> accepted,
                     tree |-> IF accepted THEN construct_parse_tree(parser, 0, n - 1, start)
                              ELSE NoTree]
    /\ parsePc' = "idle"
    /\ UNCHANGED <<heap, conv, convPc, parser, loop, tokens, report, fix>>

(***************************************************************************)
(* Spec: a caller builds a grammar and converts it.                        *)
(***************************************************************************)
Next ==
    \/ \E n \in 1..Len(ProdMenu) : AddProduction(ProdMenu, n)
    \/ \E symbol \in StartMenu : SetStartSymbol(symbol)
    \/ NewConverter
    \/ EliminateEpsilon
    \/ EliminateUnit
    \/ EliminateUseless
    \/ ConvertToBinary

Spec == Init /\ [][Next]_vars

(***************************************************************************)
(* SpecCYK: a caller builds a grammar and parses with it, or converts it   *)
(* and parses with the grammar to_cnf returns.                             *)
(***************************************************************************)
NextCYK ==
    \/ \E n \in 1..Len(CykMenu) : AddProduction(CykMenu, n)
    \/ \E symbol \in StartMenu : SetStartSymbol(symbol)
    \/ NewConverter
    \/ EliminateEpsilon
    \/ EliminateUnit
    \/ EliminateUseless
    \/ ConvertToBinary
    \/ Building /\ NewParser(G)
    \/ convPc = "returned" /\ NewParser(conv.grammar)
    \/ \E sentence \in Sentences : Parse(sentence)
    \/ FillDiagonal
    \/ FillTable
    \/ ParseReturn

SpecCYK == Init /\ [][NextCYK]_vars

(***************************************************************************)
(* Derivation in a grammar, by exhaustive search: the yardstick the claims *)
(* about languages are measured with.  Spans(w) are the stretches w[i+1..j]*)
(* of a token sequence w (i = j is the empty stretch); a fact <<X, i, j>>  *)
(* says that the symbol X, a key of the productions, derives w[i+1..j].    *)
(***************************************************************************)
Spans(w) == {ij \in (0..Len(w)) \X (0..Len(w)) : ij[1] <= ij[2]}

\* a right-hand side as a sequence of symbols: ['ε'] writes the empty one
RightSide(prod) == IF prod = <<EPS>> THEN <<>> ELSE prod

RECURSIVE RightSideDerives(_, _, _, _, _, _)
\* the sequence of symbols rhs derives w[i+1..j], the facts being known
RightSideDerives(gv, w, rhs, i, j, facts) ==
    IF rhs = <<>> THEN i = j
    ELSE \E m \in i..j :
            /\ IF DictHas(gv.productions, Head(rhs))
               THEN <<Head(rhs), i, m>> \in facts
               ELSE Head(rhs) \in gv.terminals /\ m = i + 1 /\ w[m] = Head(rhs)
            /\ RightSideDerives(gv, w, Tail(rhs), m, j, facts)

RECURSIVE DerivationFacts(_, _, _)
\* all facts of gv about w: the least set closed under the rules
DerivationFacts(gv, w, facts) ==
    LET more == {<<r[1], ij[1], ij[2]>> : r \in Rules(gv.productions), ij \in Spans(w)}
        next == {f \in more : \E r \in Rules(gv.productions) :
                    /\ r[1] = f[1]
                    /\ RightSideDerives(gv, w, RightSide(r[2]), f[2], f[3], facts)}
    IN IF next \subseteq facts THEN facts ELSE DerivationFacts(gv, w, facts \cup next)

\* the symbol X derives the token sequence w in the grammar gv
Derives(gv, X, w) == <<X, 0, Len(w)>> \in DerivationFacts(gv, w, {})

\* the grammar to_cnf returned (to_cnf returns self.grammar)
Returned == GrammarVal(heap, conv.grammar)
\* the caller's grammar
Input == GrammarVal(heap, G)
\* the grammar the parser was constructed over
Parsed == GrammarVal(heap, parser.grammar)

(***************************************************************************)
(* The claims.                                                             *)
(***************************************************************************)
\* C1: the grammar to_cnf returns satisfies is_in_cnf(), unless its start
\* symbol is left with no productions.
C1_ToCnfYieldsCnf ==
    convPc = "returned" =>
        \/ is_in_cnf(Returned)
        \/ ~DictHas(Returned.productions, Returned.start_symbol)

\* C2: the parser over to_cnf(G) accepts a token sequence exactly when G
\* derives it from its start symbol.
C2_LanguageEquivalence ==
    (/\ convPc = "returned" /\ parsePc = "idle" /\ parser.grammar = conv.grammar
     /\ result.returned /\ Input.start_symbol # None)
        => (result.accepted <=> Derives(Input, Input.start_symbol, tokens))

\* the part of w the cell table[i][j] stands for
Span(w, i, j) == SubSeq(w, i + 1, j + 1)

\* C3: after a parse over a grammar in CNF, table[i][j] holds exactly the
\* non-terminals that derive tokens[i..j].
C3_TableHoldsDerivers ==
    (/\ parsePc = "idle" /\ result.returned /\ tokens # <<>> /\ is_in_cnf(Parsed))
        => \A i \in 0..(Len(tokens) - 1) : \A j \in i..(Len(tokens) - 1) :
             \A A \in Parsed.non_terminals \cup DictKeys(Parsed.productions) :
                A \in parser.table[i][j] <=> Derives(Parsed, A, Span(tokens, i, j))

\* C4: parse accepts exactly when the start symbol is in table[0][n-1], it
\* returns a tree exactly when it accepts, and the root of the tree is the
\* start symbol over the span (0, n-1).
C4_AcceptedIffStartInTopCell ==
    (parsePc = "idle" /\ result.returned /\ tokens # <<>>) =>
        LET n == Len(tokens)
            start == Parsed.start_symbol
        IN /\ result.accepted <=> start \in parser.table[0][n - 1]
           /\ result.tree # NoTree <=> result.accepted
           /\ result.accepted =>
                result.tree.symbol = start /\ result.tree.span = <<0, n - 1>>

\* a parse of two tokens or more has accepted and returned its tree
C4_Witness ==
    /\ parsePc = "idle" /\ result.returned /\ Len(tokens) >= 2
    /\ result.accepted /\ result.tree # NoTree

\* C5: parse of the empty token sequence returns "rejected" and no tree at
\* once, and leaves table, parse_table and sentence as they were.
C5_EmptySentenceFailsFast ==
    [][(parsePc = "idle" /\ tokens' = <<>>) =>
            /\ parsePc' = "idle"
            /\ result' = [returned |-> TRUE, accepted |-> FALSE, tree |-> NoTree]
            /\ parser' = parser]_vars

\* the empty sequence was parsed after another one, whose tables are kept
C5_Witness ==
    /\ parsePc = "idle" /\ result.returned /\ tokens = <<>>
    /\ parser.sentence # <<>> /\ parser.table # NoTable
    /\ \E i \in DOMAIN parser.table : parser.table[i][i] # {}

\* the positions of the parsed sentence whose token is no terminal of the grammar
InvalidPositions ==
    {p \in 0..(Len(parser.sentence) - 1) : parser.sentence[p + 1] \notin Parsed.terminals}

\* C6: when a token is not in the terminal set, its diagonal cell and every
\* cell whose span covers it stay empty, and the sentence is rejected with
\* no tree.
C6_InvalidTokenEmptiesCells ==
    parser.table # NoTable =>
        /\ \A p \in InvalidPositions :
             \A i \in 0..p : \A j \in p..(Len(parser.sentence) - 1) :
                parser.table[i][j] = {}
        /\ (/\ parsePc = "idle" /\ result.returned /\ tokens # <<>>
            /\ InvalidPositions # {})
                => ~result.accepted /\ result.tree = NoTree

\* a sentence of three tokens, one of them invalid and another one with
\* producers, was parsed
C6_Witness ==
    /\ parsePc = "idle" /\ result.returned /\ Len(tokens) = 3
    /\ InvalidPositions # {}
    /\ \E i \in 0..2 : parser.table[i][i] # {}

\* C7: no step of the converter, its construction included, changes the
\* caller's grammar, and original_grammar stays equal to it.
C7_InputNeverMutated ==
    [][convPc' # "none" =>
            /\ GrammarVal(heap', G) = GrammarVal(heap, G)
            /\ GrammarVal(heap', conv'.original_grammar) = GrammarVal(heap', G)]_vars

\* to_cnf has returned after it introduced a new start symbol, adding it in
\* place to the non_terminals of its working copy
C7_Witness ==
    /\ convPc = "returned" /\ conv.new_var_counter > 0
    /\ Returned.start_symbol # Input.start_symbol
    /\ Input.non_terminals # {}

\* the productions of two grammars are equal as Python dicts of lists
SameProductions(d1, d2) ==
    /\ DictKeys(d1) = DictKeys(d2)
    /\ \A key \in DictKeys(d1) : DictGet(d1, key) = DictGet(d2, key)

\* to_cnf has returned its input as it was and made no new variable
Unchanged ==
    /\ Returned.start_symbol = Input.start_symbol
    /\ Returned.terminals = Input.terminals
    /\ Returned.non_terminals = Input.non_terminals
    /\ SameProductions(Returned.productions, Input.productions)
    /\ conv.new_var_counter = 0

\* C8 as stated: to_cnf returns every grammar that satisfies is_in_cnf() as
\* it was, and makes no new variable.
C8_IdempotentOnCnf ==
    (convPc = "returned" /\ is_in_cnf(Input)) => Unchanged

RECURSIVE GeneratingSet(_, _)
\* the non-terminals that derive a sequence of terminals, beyond those of known
GeneratingSet(gv, known) ==
    LET next == known \cup {r[1] : r \in {q \in Rules(gv.productions) :
                    \A n \in 1..Len(RightSide(q[2])) :
                        RightSide(q[2])[n] \in gv.terminals \cup known}}
    IN IF next = known THEN known ELSE GeneratingSet(gv, next)

RECURSIVE ReachableSet(_, _)
\* the symbols a derivation from the symbols of known can meet
ReachableSet(gv, known) ==
    LET next == known \cup UNION {SeqToSet(r[2]) : r \in {q \in Rules(gv.productions) :
                                                        q[1] \in known}}
    IN IF next = known THEN known ELSE ReachableSet(gv, next)

\* no empty right-hand side, no production twice, terminals apart from
\* non-terminals, and every non-terminal has productions, is generating and is
\* reachable from the start symbol
Reduced(gv) ==
    /\ \A r \in Rules(gv.productions) : r[2] # <<>> /\ r[2] # <<EPS>>
    /\ NumRules(gv.productions) = Cardinality(Rules(gv.productions))
    /\ gv.terminals \cap gv.non_terminals = {}
    /\ gv.non_terminals = DictKeys(gv.productions)
    /\ gv.non_terminals \subseteq GeneratingSet(gv, {})
    /\ gv.non_terminals \subseteq ReachableSet(gv, {gv.start_symbol})

\* C8, amended: to_cnf returns as it was, and with no new variable, every
\* grammar that satisfies is_in_cnf(), has no empty right-hand side, lists no
\* production twice, keeps terminals apart from non-terminals, and in which
\* every non-terminal has productions, is generating and is reachable from the
\* start symbol.
C8_IdempotentOnReducedCnf ==
    (convPc = "returned" /\ is_in_cnf(Input) /\ Reduced(Input)) => Unchanged

\* to_cnf has returned for a reduced CNF grammar of three productions, one of
\* them binary
C8_Witness ==
    /\ convPc = "returned" /\ is_in_cnf(Input) /\ Reduced(Input)
    /\ NumRules(Input.productions) = 3
    /\ \E r \in Rules(Input.productions) : Len(r[2]) = 2

\* the non-terminals of gv that derive the empty sequence
NullableSet(gv) ==
    {A \in gv.non_terminals \cup DictKeys(gv.productions) : Derives(gv, A, <<>>)}

C10_LowerTriangleEmpty ==
    parser.table # NoTable =>
        \A i \in DOMAIN parser.table : \A j \in DOMAIN parser.table :
            i > j => parser.table[i][j] = {} /\ DOMAIN parser.parse_table[i][j] = {}

\* _fill_table is at work on three tokens and has written a cell above the
\* diagonal
C10_Witness ==
    /\ parsePc = "fill" /\ Len(parser.sentence) = 3
    /\ parser.table[0][1] # {}

(***************************************************************************)
(* SpecScenario: the grammars of the two worked scenarios, built as the    *)
(* demos of main.py build theirs (set_start_symbol, then add_production    *)
(* for each rule in turn), converted, and parsed with the grammar to_cnf   *)
(* returns.                                                                *)
(***************************************************************************)
\* E -> E P T | T, T -> T M F | F, F -> L E R | id, L -> (, R -> ), P -> +, M -> *
ArithmeticRules ==
    << Rule("E", <<"E", "P", "T">>), Rule("E", <<"T">>),
       Rule("T", <<"T", "M", "F">>), Rule("T", <<"F">>),
       Rule("F", <<"L", "E", "R">>), Rule("F", <<"id">>),
       Rule("L", <<"(">>), Rule("R", <<")">>), Rule("P", <<"+">>), Rule("M", <<"*">>) >>

\* S -> A B, A -> a | ε, B -> b | ε
NullableRules ==
    << Rule("S", <<"A", "B">>), Rule("A", <<"a">>), Rule("A", <<EPS>>),
       Rule("B", <<"b">>), Rule("B", <<EPS>>) >>

RECURSIVE AddAll(_, _, _)
\* for left, right in productions: grammar.add_production(left, right)
AddAll(h, g, rules) ==
    IF rules = <<>> THEN h
    ELSE AddAll(add_production(h, g, Head(rules).left, Head(rules).right), g, Tail(rules))

\* grammar = Grammar(); grammar.set_start_symbol(start); the loop over rules
Built(start, rules) ==
    AddAll(set_start_symbol(Grammar([grammars |-> <<>>, dicts |-> <<>>, sets |-> <<>>]),
                            G, start), G, rules)

ArithmeticSentences ==
    {<<"id", "+", "id", "*", "id">>, <<"id", "+">>, <<"(", "id", ")">>}

NullableSentences == {<<"a", "b">>, <<"a">>, <<"b">>, <<>>}

\* the sentences of the scenario the caller's grammar belongs to
ScenarioSentences ==
    IF heap.grammars[G].start_symbol = "E" THEN ArithmeticSentences ELSE NullableSentences

InitScenario ==
    /\ heap \in {Built("E", ArithmeticRules), Built("S", NullableRules)}
    /\ conv = NoConverter
    /\ convPc = "none"
    /\ parser = NoParser
    /\ parsePc = "none"
    /\ loop = NoLoop
    /\ tokens = <<>>
    /\ result = NoResult
    /\ report = NoReport
    /\ fix = NoFix

NextScenario ==
    \/ NewConverter
    \/ EliminateEpsilon
    \/ EliminateUnit
    \/ EliminateUseless
    \/ ConvertToBinary
    \/ convPc = "returned" /\ NewParser(conv.grammar)
    \/ \E sentence \in ScenarioSentences : Parse(sentence)
    \/ FillDiagonal
    \/ FillTable
    \/ ParseReturn

SpecScenario == InitScenario /\ [][NextScenario]_vars

\* C11: for the arithmetic grammar, after to_cnf the parser accepts
\* id + id * id, rejects id +, and accepts ( id ).
C11_ArithmeticScenario ==
    (parsePc = "idle" /\ result.returned /\ Input.start_symbol = "E") =>
        /\ tokens = <<"id", "+", "id", "*", "id">> => result.accepted
        /\ tokens = <<"id", "+">> => ~result.accepted
        /\ tokens = <<"(", "id", ")">> => result.accepted

\* id + id * id has been parsed and accepted
C11_Witness ==
    /\ parsePc = "idle" /\ result.returned /\ Input.start_symbol = "E"
    /\ tokens = <<"id", "+", "id", "*", "id">> /\ result.accepted

\* C12: for the grammar S -> A B, A -> a | ε, B -> b | ε, after to_cnf the
\* parser accepts a b, a, b and the empty sequence, and in the grammar to_cnf
\* returns only the start symbol has an empty right-hand side.
C12_NullableScenario ==
    (convPc = "returned" /\ Input.start_symbol = "S") =>
        /\ \A r \in Rules(Returned.productions) :
                IsEpsilonProd(r[2]) => r[1] = Returned.start_symbol
        /\ (parsePc = "idle" /\ result.returned) => result.accepted

\* the symbols one unit step leads to from the symbols of X, a unit step being
\* a right-hand side of one symbol that is in units
UnitStep(gv, X, units) ==
    {r[2][1] : r \in {q \in Rules(gv.productions) :
                        q[1] \in X /\ Len(q[2]) = 1 /\ q[2][1] \in units}}

RECURSIVE UnitReach(_, _, _)
\* the symbols any number of unit steps lead to from the symbols of seen
UnitReach(gv, seen, units) ==
    LET next == seen \cup UnitStep(gv, seen, units)
    IN IF next = seen THEN seen ELSE UnitReach(gv, next, units)

\* the symbols B with (A, B) in the transitive closure of the unit pairs
UnitTargets(gv, A, units) == UnitReach(gv, UnitStep(gv, {A}, units), units)

\* the right-hand sides of A that are no unit step
NonUnitOf(gv, A, units) ==
    {r[2] : r \in {q \in Rules(gv.productions) :
                        q[1] = A /\ ~(Len(q[2]) = 1 /\ q[2][1] \in units)}}

\* what Stage B is to leave of the grammar before, units being the symbols a
\* unit right-hand side can consist of: no unit right-hand side, and for each
\* A its own non-unit right-hand sides and those of its unit targets, once each
UnitFree(before, after, units) ==
    /\ DictKeys(after.productions) = DictKeys(before.productions)
    /\ \A r \in Rules(after.productions) : ~(Len(r[2]) = 1 /\ r[2][1] \in units)
    /\ \A A \in DictKeys(before.productions) :
        /\ SeqToSet(DictGet(after.productions, A)) =
                NonUnitOf(before, A, units) \cup
                UNION {NonUnitOf(before, B, units) : B \in UnitTargets(before, A, units)}
        /\ Len(DictGet(after.productions, A)) =
                Cardinality(SeqToSet(DictGet(after.productions, A)))

\* the symbols of the right-hand sides of gv that are no terminals
UsedNonTerminals(gv) ==
    UNION {SeqToSet(r[2]) : r \in Rules(gv.productions)} \ gv.terminals

Validate ==
    /\ Building
    /\ report' = [op |-> "validate", ok |-> validate(Input) = <<>>,
                  errors |-> validate(Input)]
    /\ UNCHANGED <<heap, conv, convPc, parser, parsePc, loop, tokens, result, fix>>

\* grammar.is_in_cnf()
IsInCnf ==
    /\ Building
    /\ report' = [op |-> "is_in_cnf", ok |-> is_in_cnf(Input), errors |-> <<>>]
    /\ UNCHANGED <<heap, conv, convPc, parser, parsePc, loop, tokens, result, fix>>

NextGrammar ==
    \/ \E n \in 1..Len(ProdMenu) : AddProduction(ProdMenu, n)
    \/ \E symbol \in StartMenu : SetStartSymbol(symbol)
    \/ Validate
    \/ IsInCnf

SpecGrammar == Init /\ [][NextGrammar]_vars

\* the symbols the grammar has classified
Classified(gv) == gv.terminals \cup gv.non_terminals

\* C14: add_production with a symbol in right that is not yet classified as
\* terminal or non-terminal leaves the grammar as it was (it fails), and
\* classifies no symbol itself.
C14_UnclassifiedSymbolRefused ==
    [][\A n \in 1..Len(ProdMenu) :
            (/\ AddProduction(ProdMenu, n)
             /\ \E i \in 1..Len(ProdMenu[n].right) :
                    ProdMenu[n].right[i] \notin Classified(Input))
                => heap' = heap]_vars

\* the symbols that occur in the grammar: left-hand sides, right-hand sides and
\* the start symbol
Occurring(gv) ==
    {r[1] : r \in Rules(gv.productions)}
        \cup UNION {SeqToSet(r[2]) : r \in Rules(gv.productions)}
        \cup ({gv.start_symbol} \ {None})

\* C15: after any sequence of add_production and set_start_symbol calls,
\* terminals and non_terminals are disjoint and contain every symbol that
\* occurs in the grammar.
C15_SymbolSetsCoverGrammar ==
    /\ Input.terminals \cap Input.non_terminals = {}
    /\ Occurring(Input) \subseteq Classified(Input)

\* the three conditions of a valid grammar; a referenced non-terminal is a symbol
\* of a right-hand side that is not a terminal (non_terminals does not hold the
\* symbol of a unit right-hand side)
StartSet(gv) == gv.start_symbol # None
StartHasProduction(gv) == \E r \in Rules(gv.productions) : r[1] = gv.start_symbol
ReferencedAreDefined(gv) ==
    \A r \in Rules(gv.productions) : \A i \in 1..Len(r[2]) :
        r[2][i] \notin gv.terminals => \E q \in Rules(gv.productions) : q[1] = r[2][i]

\* the error list has an entry of this kind
Reports(errors, error) == \E i \in 1..Len(errors) : errors[i].error = error

\* C16: validate leaves the grammar as it was; its error list is empty exactly
\* when a start symbol is set, the start symbol has a production and every
\* non-terminal of a right-hand side has productions; each condition that is
\* violated has its entry in the list of the same call.
C16_ValidateReportsAll ==
    [][(report' # report /\ report'.op = "validate") =>
            /\ heap' = heap
            /\ report'.ok <=> report'.errors = <<>>
            /\ report'.errors = <<>> <=>
                    /\ StartSet(Input)
                    /\ StartHasProduction(Input)
                    /\ ReferencedAreDefined(Input)
            /\ ~StartSet(Input) => Reports(report'.errors, "no_start")
            /\ (StartSet(Input) /\ ~StartHasProduction(Input))
                    => Reports(report'.errors, "start_without_productions")
            /\ ~ReferencedAreDefined(Input) => Reports(report'.errors, "undefined")]_vars

\* validate has reported a start symbol without productions and an undefined
\* non-terminal in one call
C16_Witness ==
    /\ report.op = "validate"
    /\ Reports(report.errors, "start_without_productions")
    /\ Reports(report.errors, "undefined")

\* every right-hand side has length 0, 1 or 2; an empty one belongs to the
\* start symbol, one symbol is a terminal, two symbols are non-terminals
CnfShape(gv) ==
    \A r \in Rules(gv.productions) :
        /\ Len(r[2]) \in {0, 1, 2}
        /\ Len(r[2]) = 0 => r[1] = gv.start_symbol
        /\ Len(r[2]) = 1 => r[2][1] \in gv.terminals
        /\ Len(r[2]) = 2 => r[2][1] \in gv.non_terminals /\ r[2][2] \in gv.non_terminals

\* C17 as stated: is_in_cnf returns true exactly when the right-hand sides
\* have the shapes of CNF.
C17_IsInCnfIffShape ==
    [][(report' # report /\ report'.op = "is_in_cnf") =>
            (report'.ok <=> CnfShape(Input))]_vars

\* C17, amended: is_in_cnf returns true exactly when a start symbol is set and
\* the right-hand sides have the shapes of CNF.
C17_IsInCnfIffStartAndShape ==
    [][(report' # report /\ report'.op = "is_in_cnf") =>
            (report'.ok <=> (StartSet(Input) /\ CnfShape(Input)))]_vars

\* is_in_cnf has returned true for a grammar with a binary rule
C17_Witness ==
    /\ report.op = "is_in_cnf" /\ report.ok
    /\ is_in_cnf(Input)
    /\ \E r \in Rules(Input.productions) : Len(r[2]) = 2

\* C18: no parse runs on a grammar for which is_in_cnf is false, and no
\* sentence is accepted with one: a parser constructed over such a grammar
\* is not able to parse.
C18_NoParseOverNonCnf ==
    (\/ parsePc \in {"diagonal", "fill", "finish"}
     \/ parsePc = "idle" /\ result.returned /\ result.accepted)
        => is_in_cnf(Parsed)

\* C19: to_cnf never aborts: for every grammar built with add_production and
\* set_start_symbol no stage raises.
C19_ToCnfNeverAborts == convPc # "raised"

RECURSIVE FreshFill(_, _)
\* the parser that _fill_table leaves when it starts at the loop variables l
FreshFill(p, l) ==
    IF l = NoLoop THEN p
    ELSE LET i == l.i
             j == l.i + l.length - 1
         IN FreshFill(fill_split(p, i, j, l.k,
                        CHOOSE order \in Orders(p.table[i][l.k]) : TRUE,
                        CHOOSE order \in Orders(p.table[l.k + 1][j]) : TRUE),
                      NextLoop(Len(p.sentence), l))

\* the parser that one parse of a non-empty sentence leaves when it is the
\* first call on a newly constructed CYKParser over the grammar g
FreshParse(h, g, sentence) ==
    FreshFill(fill_diagonal([CYKParser(h, g) EXCEPT
                                !.sentence = sentence,
                                !.table = EmptyTable(Len(sentence)),
                                !.parse_table = EmptyParseTable(Len(sentence))]),
              FirstLoop(Len(sentence)))

\* C20: no step of parse changes the grammar, terminal_producers or
\* binary_producers, and when a call returns, its acceptance result and the
\* table it has built are those of the first call of a newly constructed
\* parser over the same grammar on the same tokens, whatever was parsed before
\* (a call on the empty sentence builds no table and is refused by both).
C20_ParseDependsOnTokensOnly ==
    [][parsePc # "none" =>
            /\ heap' = heap
            /\ parser'.grammar = parser.grammar
            /\ parser'.terminal_producers = parser.terminal_producers
            /\ parser'.binary_producers = parser.binary_producers
            /\ parsePc' = "idle" => result'.returned
            /\ (parsePc' = "idle" /\ tokens' = <<>>) => ~result'.accepted
            /\ (parsePc' = "idle" /\ tokens' # <<>>) =>
                    LET fresh == FreshParse(heap, parser.grammar, tokens')
                        start == heap.grammars[parser.grammar].start_symbol
                    IN /\ parser'.terminal_producers = fresh.terminal_producers
                       /\ parser'.binary_producers = fresh.binary_producers
                       /\ parser'.table = fresh.table
                       /\ result'.accepted = (start \in fresh.table[0][Len(tokens') - 1])]_vars

\* a call on the empty sentence has returned on a parser whose previous call
\* accepted a sentence of two tokens or more
C20_Witness ==
    /\ parsePc = "idle" /\ result.returned /\ ~result.accepted
    /\ tokens = <<>>
    /\ Len(parser.sentence) >= 2
    /\ Parsed.start_symbol \in parser.table[0][Len(parser.sentence) - 1]
    /\ parser.table = FreshParse(heap, parser.grammar, parser.sentence).table

(***************************************************************************)
(* SpecAmbiguous: a caller builds a grammar in which a sentence can have   *)
(* several derivations, and parses with it.                                *)
(***************************************************************************)
\* the productions of the caller's grammars
AmbiguousMenu ==
    << Rule("S", <<"S", "S">>), Rule("S", <<"A", "A">>), Rule("S", <<"A", "S">>),
       Rule("S", <<"a">>), Rule("A", <<"a">>), Rule("A", <<"A", "A">>) >>

RECURSIVE Chosen(_, _)
\* the rules of the menu at the places in chosen, in the order of the menu
Chosen(menu, chosen) ==
    IF chosen = {} THEN <<>>
    ELSE LET n == CHOOSE n \in chosen : \A m \in chosen : n <= m
         IN <<menu[n]>> \o Chosen(menu, chosen \ {n})

InitAmbiguous ==
    /\ heap \in {Built("S", Chosen(AmbiguousMenu, chosen)) :
                    chosen \in SUBSET (1..Len(AmbiguousMenu))}
    /\ conv = NoConverter
    /\ convPc = "none"
    /\ parser = NoParser
    /\ parsePc = "none"
    /\ loop = NoLoop
    /\ tokens = <<>>
    /\ result = NoResult
    /\ report = NoReport
    /\ fix = NoFix

NextAmbiguous ==
    \/ NewParser(G)
    \/ \E sentence \in Sentences : Parse(sentence)
    \/ FillDiagonal
    \/ FillTable
    \/ ParseReturn

SpecAmbiguous == InitAmbiguous /\ [][NextAmbiguous]_vars

\* the cells above the diagonal of a table
Interior(table) == {c \in (DOMAIN table) \X (DOMAIN table) : c[1] < c[2]}

\* the split points k of the cell [i][j] at which a rule A -> left right has
\* left in table[i][k] and right in table[k+1][j]
SplitPoints(gv, table, i, j, A) ==
    {k \in i..(j - 1) :
        \E left \in table[i][k], right \in table[k + 1][j] :
            \E r \in Rules(gv.productions) : r[1] = A /\ r[2] = <<left, right>>}

\* C21: a step of the interior fill never changes a backpointer that is
\* recorded, and when the fill ends every recorded split point is the smallest
\* k at which a rule of the producer has its left symbol in table[i][k] and
\* its right symbol in table[k+1][j].
C21_FirstBackpointerKept ==
    [][parsePc = "fill" =>
            /\ \A c \in Interior(parser.table) :
                \A A \in DOMAIN parser.parse_table[c[1]][c[2]] :
                    /\ A \in DOMAIN parser'.parse_table[c[1]][c[2]]
                    /\ parser'.parse_table[c[1]][c[2]][A] = parser.parse_table[c[1]][c[2]][A]
            /\ parsePc' = "finish" =>
                \A c \in Interior(parser'.table) :
                    \A A \in DOMAIN parser'.parse_table[c[1]][c[2]] :
                        LET ks == SplitPoints(Parsed, parser'.table, c[1], c[2], A)
                        IN /\ parser'.parse_table[c[1]][c[2]][A].k \in ks
                           /\ \A k \in ks : parser'.parse_table[c[1]][c[2]][A].k <= k]_vars

\* a parse has returned with a cell whose producer had a candidate at two
\* split points
C21_Witness ==
    /\ parsePc = "idle" /\ result.returned /\ tokens # <<>>
    /\ \E c \in Interior(parser.table) :
        \E A \in DOMAIN parser.parse_table[c[1]][c[2]] :
            /\ Cardinality(SplitPoints(Parsed, parser.table, c[1], c[2], A)) >= 2
            /\ parser.parse_table[c[1]][c[2]][A].k = c[1]

\* C22: for a CNF grammar and a token sequence the backpointers of every cell
\* and the returned parse tree are determined: whatever the order in which the
\* members of the cells are enumerated, they are those of the parse that
\* enumerates them in one fixed order.
C22_DerivationDetermined ==
    (parsePc = "idle" /\ result.returned /\ tokens # <<>> /\ is_in_cnf(Parsed)) =>
        LET fresh == FreshParse(heap, parser.grammar, tokens)
        IN /\ parser.parse_table = fresh.parse_table
           /\ result.accepted =>
                result.tree = construct_parse_tree(fresh, 0, Len(tokens) - 1,
                                                   Parsed.start_symbol)

\* the grammar has the rule left -> right
HasRule(gv, left, right) ==
    \E r \in Rules(gv.productions) : r[1] = left /\ r[2] = right

RECURSIVE WellFormed(_, _, _)
\* a non-terminal node and all below it are built as a derivation of the
\* grammar over its span of the token sequence
WellFormed(node, gv, sentence) ==
    LET i == node.span[1]
        j == node.span[2]
        children == node.children
    IN /\ ~node.is_terminal
       /\ 0 <= i /\ i <= j /\ j < Len(sentence)
       /\ \/ /\ Len(children) = 1
             /\ children[1].is_terminal
             /\ children[1].children = <<>>
             /\ i = j
             /\ children[1].span = <<i, i>>
             /\ children[1].symbol = sentence[i + 1]
             /\ HasRule(gv, node.symbol, <<sentence[i + 1]>>)
          \/ /\ Len(children) = 2
             /\ children[1].span[1] = i
             /\ children[2].span[2] = j
             /\ children[1].span[2] + 1 = children[2].span[1]
             /\ i <= children[1].span[2] /\ children[1].span[2] < j
             /\ HasRule(gv, node.symbol, <<children[1].symbol, children[2].symbol>>)
             /\ WellFormed(children[1], gv, sentence)
             /\ WellFormed(children[2], gv, sentence)

RECURSIVE Leaves(_)
\* the symbols of the leaves of a tree, read from left to right
Leaves(node) ==
    IF node.children = <<>> THEN <<node.symbol>>
    ELSE IF Len(node.children) = 1 THEN Leaves(node.children[1])
    ELSE Leaves(node.children[1]) \o Leaves(node.children[2])

\* C23: the parse tree returned for an accepted sentence over a CNF grammar
\* has the start symbol over the whole sentence at its root; every non-terminal
\* node has one terminal leaf that is the token of its position, or two
\* non-terminal children over the two parts of its span, by a rule of the
\* grammar; the leaves read from left to right are the token sequence.
C23_TreeIsDerivation ==
    (parsePc = "idle" /\ result.returned /\ result.accepted /\ is_in_cnf(Parsed)) =>
        /\ result.tree # NoTree
        /\ result.tree.symbol = Parsed.start_symbol
        /\ result.tree.span = <<0, Len(tokens) - 1>>
        /\ WellFormed(result.tree, Parsed, tokens)
        /\ Leaves(result.tree) = tokens

\* a tree of three tokens has been returned whose root has a child with two
\* children of its own
C23_Witness ==
    /\ parsePc = "idle" /\ result.returned /\ result.accepted /\ is_in_cnf(Parsed)
    /\ Len(tokens) = 3
    /\ Len(result.tree.children) = 2
    /\ \E n \in 1..2 : Len(result.tree.children[n].children) = 2

(***************************************************************************)
(* SpecFresh: a caller converts a grammar that has long right-hand sides   *)
(* and symbols with the names the converter gives to its new variables.    *)
(***************************************************************************)
\* the productions of the caller's grammars
FreshMenu ==
    << Rule("S", <<>>), Rule("S", <<"a", "S0">>), Rule("S", <<"A", "B", "A", "B">>),
       Rule("S", <<"Y0", "A", "B">>), Rule("A", <<"a">>), Rule("A", <<EPS>>),
       Rule("B", <<"b">>), Rule("Y0", <<"b">>) >>

InitFresh ==
    /\ heap \in {Built("S", Chosen(FreshMenu, chosen)) :
                    chosen \in SUBSET (1..Len(FreshMenu))}
    /\ conv = NoConverter
    /\ convPc = "none"
    /\ parser = NoParser
    /\ parsePc = "none"
    /\ loop = NoLoop
    /\ tokens = <<>>
    /\ result = NoResult
    /\ report = NoReport
    /\ fix = NoFix

NextFresh ==
    \/ NewConverter
    \/ EliminateEpsilon
    \/ EliminateUnit
    \/ EliminateUseless
    \/ ConvertToBinary

SpecFresh == InitFresh /\ [][NextFresh]_vars

\* every symbol the grammar knows of
Symbols(gv) == Occurring(gv) \cup gv.terminals \cup gv.non_terminals

\* the postcondition of Stage A for the grammar before and the grammar after
StageAPost(before, after) ==
    LET old == before.start_symbol
        new == after.start_symbol
    IN /\ \A r \in Rules(after.productions) : IsEpsilonProd(r[2]) => r[1] = new
       /\ old \in NullableSet(before) =>
            /\ new \in after.non_terminals
            /\ {r[2] : r \in {q \in Rules(after.productions) : q[1] = new}} \ {<<>>}
                    = {<<old>>}
            /\ HasRule(after, new, <<>>) <=>
                    ~\E r \in Rules(after.productions) : r[1] = old /\ r[2] # <<>>
       /\ old \notin NullableSet(before) =>
            /\ new = old
            /\ \A r \in Rules(after.productions) : ~IsEpsilonProd(r[2])

\* C24: after Stage A only the start symbol can have an empty right-hand
\* side; for a nullable old start symbol the start symbol is a new variable
\* S', no symbol of the grammar before, with S' -> old start, and with
\* S' -> empty exactly when the old start symbol keeps no non-empty production;
\* otherwise the start symbol is the old one and no empty right-hand side is
\* left.
C24_StageAIsolatesEmpty ==
    [][(convPc = "to_cnf" /\ convPc' = "unit") =>
            LET before == GrammarVal(heap, conv.grammar)
                after == GrammarVal(heap', conv.grammar)
            IN /\ StageAPost(before, after)
               /\ before.start_symbol \in NullableSet(before) =>
                    after.start_symbol \notin Symbols(before)]_vars

\* C25: after Stage C every key of productions is generating by the
\* productions that remain and reachable from the start symbol, every symbol
\* of a remaining right-hand side is a terminal or a remaining key, and
\* non_terminals is the set of the keys.
C25_StageCLeavesUsefulOnly ==
    [][(convPc = "useless" /\ convPc' = "binary") =>
            LET after == GrammarVal(heap', conv.grammar)
                keys == DictKeys(after.productions)
            IN /\ keys \subseteq GeneratingSet(after, {})
               /\ keys \subseteq ReachableSet(after, {after.start_symbol})
               /\ \A r \in Rules(after.productions) :
                    SeqToSet(r[2]) \subseteq after.terminals \cup keys
               /\ after.non_terminals = keys]_vars

\* Stage C has removed a key that was not generating and a key that was not
\* reachable, and has kept others
C25_Witness ==
    /\ convPc = "binary"
    /\ LET before == GrammarVal(heap, conv.original_grammar)
           after == GrammarVal(heap, conv.grammar)
       IN /\ DictKeys(after.productions) # {}
          /\ \E A \in DictKeys(before.productions) \ DictKeys(after.productions) :
                A \notin GeneratingSet(before, {})
          /\ \E A \in DictKeys(before.productions) \ DictKeys(after.productions) :
                /\ A \in GeneratingSet(before, {})
                /\ A \notin ReachableSet(before, {before.start_symbol})

\* the list of right-hand sides of var
RulesOf(gv, var) == IF DictHas(gv.productions, var) THEN DictGet(gv.productions, var) ELSE <<>>

RECURSIVE ChainTail(_, _, _, _)
\* Y and the variables of news after it carry the rest of a long right-hand
\* side as a right-branching chain, each with one production
ChainTail(gv, Y, rest, news) ==
    /\ Y \in news
    /\ IF Len(rest) = 2 THEN RulesOf(gv, Y) = <<rest>>
       ELSE \E Z \in news \ {Y} :
                /\ RulesOf(gv, Y) = << <<rest[1], Z>> >>
                /\ ChainTail(gv, Z, Tail(rest), news \ {Y})

RECURSIVE Excess(_)
\* the sum of k - 2 over the right-hand sides of length k > 2
Excess(rules) ==
    IF rules = {} THEN 0
    ELSE LET r == CHOOSE r \in rules : TRUE
         IN (IF Len(r[2]) > 2 THEN Len(r[2]) - 2 ELSE 0) + Excess(rules \ {r})

\* the places at which the symbol stands in right-hand sides
Occurrences(gv, symbol) ==
    UNION {{<<r, n>> : n \in {m \in 1..Len(r[2]) : r[2][m] = symbol}} :
                r \in Rules(gv.productions)}

\* C26: Stage D keeps every right-hand side of length up to 2 and writes
\* each longer one [a1..ak] of A as the chain A -> a1 Y1, ..., Y(k-2) ->
\* a(k-1) ak through k - 2 new variables; a new variable is no symbol of the
\* grammar before, has one production, stands in one right-hand side and is a
\* member of non_terminals.
C26_StageDChains ==
    [][(convPc = "binary" /\ convPc' = "returned") =>
            LET before == GrammarVal(heap, conv.grammar)
                after == GrammarVal(heap', conv.grammar)
                news == DictKeys(after.productions) \ DictKeys(before.productions)
            IN /\ \A r \in Rules(before.productions) :
                    IF Len(r[2]) <= 2 THEN HasRule(after, r[1], r[2])
                    ELSE \E Y \in news : /\ HasRule(after, r[1], <<r[2][1], Y>>)
                                         /\ ChainTail(after, Y, Tail(r[2]), news)
               /\ \A r \in Rules(after.productions) :
                    r[1] \notin news =>
                        \/ HasRule(before, r[1], r[2])
                        \/ \E q \in Rules(before.productions) :
                                /\ q[1] = r[1] /\ Len(q[2]) > 2
                                /\ r[2][1] = q[2][1] /\ Len(r[2]) = 2 /\ r[2][2] \in news
               /\ Cardinality(news) = Excess(Rules(before.productions))
               /\ \A Y \in news :
                    /\ Y \notin Symbols(before)
                    /\ Len(RulesOf(after, Y)) = 1
                    /\ Cardinality(Occurrences(after, Y)) = 1
                    /\ Y \in after.non_terminals]_vars

\* Stage D has written a right-hand side of four symbols as a chain through two
\* new variables, in a grammar that had a variable Y0 of its own
C26_Witness ==
    /\ convPc = "returned"
    /\ LET after == GrammarVal(heap, conv.grammar)
           news == DictKeys(after.productions) \ DictKeys(Input.productions)
       IN /\ HasRule(after, "Y0", <<"b">>)
          /\ \E Y \in news, Z \in news : HasRule(after, Y, <<"B", Z>>)

(***************************************************************************)
(* SpecFixpoint: the loops of the converter, one iteration a step.  A loop *)
(* that has started goes on until it returns: the converter is sequential  *)
(* code, which the weak fairness of the loop's steps states.               *)
(***************************************************************************)
\* the productions of the caller's grammars: unit cycles, symbols that are
\* nullable and recursive through each other, variables named like new ones
CycleMenu ==
    << Rule("S", <<"A">>), Rule("S", <<"A", "B">>), Rule("A", <<"A">>),
       Rule("A", <<"B">>), Rule("A", <<EPS>>), Rule("B", <<"A">>), Rule("B", <<"S">>),
       Rule("B", <<"b">>), Rule("Y0", <<"b">>), Rule("Y1", <<"S">>) >>

InitFixpoint ==
    /\ heap \in {Built("S", Chosen(CycleMenu, chosen)) :
                    chosen \in SUBSET (1..Len(CycleMenu))}
    /\ conv = NoConverter
    /\ convPc = "none"
    /\ parser = NoParser
    /\ parsePc = "none"
    /\ loop = NoLoop
    /\ tokens = <<>>
    /\ result = NoResult
    /\ report = NoReport
    /\ fix = NoFix

\* the grammar the converter works on
Working == GrammarVal(heap, conv.grammar)

\* a faulty UnitPass that forgets the pairs it had
UnitPass_forgetful(unit_pairs) ==
    {<<x[1][1], x[2][2]>> : x \in {y \in unit_pairs \X unit_pairs : y[1][2] = y[2][1]}}

\* one iteration of the closure loop of find_unit_productions
UnitPass(unit_pairs) ==
    unit_pairs \cup
        {<<x[1][1], x[2][2]>> : x \in {y \in unit_pairs \X unit_pairs : y[1][2] = y[2][1]}}

\* one iteration of the loop of find_reachable_symbols
ReachablePass(productions, reachable) ==
    reachable \cup
        UNION {SeqToSet(r[2]) : r \in {q \in Rules(productions) : q[1] \in reachable}}

\* the set a loop has before its first iteration
Seed(name, gv) ==
    CASE name = "nullable" ->
            {r[1] : r \in {q \in Rules(gv.productions) : IsEpsilonProd(q[2])}}
      [] name = "unit" ->
            {<<r[1], r[2][1]>> :
                r \in {q \in Rules(gv.productions) : IsUnitProd(q[2], gv.non_terminals)}}
      [] name = "generating" -> gv.terminals
      [] name = "reachable" -> {gv.start_symbol}

\* the set a loop has after one more iteration
Pass(name, gv, set) ==
    CASE name = "nullable" -> NullablePass(gv.productions, 1, set)
      [] name = "unit" -> UnitPass(set)
      [] name = "generating" -> GeneratingPass(gv.productions, 1, set)
      [] name = "reachable" -> ReachablePass(gv.productions, set)

FixpointLoops == {"nullable", "unit", "generating", "reachable"}

\* find_nullable_symbols, find_unit_productions, find_generating_symbols or
\* find_reachable_symbols up to its "changed = True; while changed:"; a
\* behaviour follows one of the four loops
FindStart(name) ==
    /\ convPc = "to_cnf"
    /\ fix = NoFix
    /\ fix' = [loop |-> name, set |-> Seed(name, Working), changed |-> TRUE,
               base |-> "", counter |-> 0]
    /\ UNCHANGED <<heap, conv, convPc, parser, parsePc, loop, tokens, result, report>>

\* one iteration of the while loop
FindIteration ==
    /\ fix.loop \in FixpointLoops
    /\ fix.changed
    /\ fix' = [fix EXCEPT !.set = Pass(fix.loop, Working, fix.set),
                          !.changed = Pass(fix.loop, Working, fix.set) # fix.set]
    /\ UNCHANGED <<heap, conv, convPc, parser, parsePc, loop, tokens, result, report>>

\* the loop ends and the method returns its set
FindReturn ==
    /\ fix.loop \in FixpointLoops
    /\ ~fix.changed
    /\ fix' = [fix EXCEPT !.loop = "none"]
    /\ UNCHANGED <<heap, conv, convPc, parser, parsePc, loop, tokens, result, report>>

\* generate_new_variable(base) up to its "while True:"; a behaviour follows
\* calls of generate_new_variable as long as the counter is below MaxNewVars
NewVariableStart(base) ==
    /\ convPc = "to_cnf"
    /\ fix.loop = "none"
    /\ fix = NoFix \/ fix.base # ""
    /\ conv.new_var_counter < MaxNewVars
    /\ fix' = [loop |-> "new_variable", set |-> {}, changed |-> FALSE,
               base |-> base, counter |-> conv.new_var_counter]
    /\ UNCHANGED <<heap, conv, convPc, parser, parsePc, loop, tokens, result, report>>

\* one iteration of "while True:", which returns var or goes on
NewVariableIteration ==
    /\ fix.loop = "new_variable"
    /\ IF VarName(fix.base, fix.counter) \notin Working.non_terminals
       THEN /\ fix' = [fix EXCEPT !.loop = "none", !.counter = @ + 1,
                                  !.set = {VarName(fix.base, fix.counter)}]
            /\ conv' = [conv EXCEPT !.new_var_counter = fix.counter + 1]
       ELSE /\ fix' = [fix EXCEPT !.counter = @ + 1]
            /\ UNCHANGED conv
    /\ UNCHANGED <<heap, convPc, parser, parsePc, loop, tokens, result, report>>

NextFixpoint ==
    \/ NewConverter
    \/ \E name \in FixpointLoops : FindStart(name)
    \/ FindIteration
    \/ FindReturn
    \/ \E base \in {"S", "Y"} : NewVariableStart(base)
    \/ NewVariableIteration

SpecFixpoint ==
    /\ InitFixpoint
    /\ [][NextFixpoint]_vars
    /\ WF_vars(FindIteration)
    /\ WF_vars(FindReturn)
    /\ WF_vars(NewVariableIteration)

\* the set the whole method returns
Whole(name, gv) ==
    CASE name = "nullable" -> find_nullable_symbols(gv)
      [] name = "unit" -> find_unit_productions(gv)
      [] name = "generating" -> find_generating_symbols(gv)
      [] name = "reachable" -> find_reachable_symbols(gv)

\* C27: every fixpoint loop of the converter (nullable set, unit-pair
\* closure, generating set, reachable set) and generate_new_variable, once
\* started, returns; while a loop runs its set only grows, it goes on exactly
\* when the iteration has added something, and the set it returns is the one
\* the next iteration would leave as it is, the set the method returns.
C27_LoopsTerminate ==
    /\ [][(fix.loop \in FixpointLoops /\ fix'.loop = fix.loop) =>
                /\ fix.set \subseteq fix'.set
                /\ fix'.changed <=> fix'.set # fix.set]_vars
    /\ [][(fix.loop \in FixpointLoops /\ fix'.loop = "none") =>
                /\ fix'.set = fix.set
                /\ Pass(fix.loop, Working, fix.set) = fix.set
                /\ fix.set = Whole(fix.loop, Working)]_vars
    /\ \A name \in FixpointLoops \cup {"new_variable"} :
            (fix.loop = name) ~> (fix.loop = "none")

\* the closure loop of find_unit_productions has returned for a grammar with the
\* unit cycle A -> B, B -> A and the unit production A -> A
C27_Witness ==
    /\ fix.loop = "none"
    /\ {<<"A", "A">>, <<"A", "B">>, <<"B", "A">>, <<"B", "B">>} \subseteq fix.set
    /\ HasRule(Working, "A", <<"A">>)
    /\ HasRule(Working, "A", <<"B">>)
    /\ HasRule(Working, "B", <<"A">>)

\* C28: in every Grammar object whose start symbol is set, the start symbol
\* is a member of non_terminals, and in the grammar to_cnf returns it is a key
\* of productions as well.
C28_StartIsNonTerminal ==
    /\ \A g \in 1..Len(heap.grammars) :
            GrammarVal(heap, g).start_symbol # None =>
                GrammarVal(heap, g).start_symbol \in GrammarVal(heap, g).non_terminals
    /\ (convPc = "returned" /\ Returned.start_symbol # None) =>
            DictHas(Returned.productions, Returned.start_symbol)

EnglishProductions ==
    << Rule("S", <<"NP", "VP">>), Rule("VP", <<"VP", "PP">>), Rule("VP", <<"V", "NP">>),
       Rule("VP", <<"cooks">>), Rule("VP", <<"drinks">>), Rule("VP", <<"eats">>),
       Rule("VP", <<"cuts">>), Rule("PP", <<"P", "NP">>), Rule("NP", <<"Det", "N">>),
       Rule("NP", <<"he">>), Rule("NP", <<"she">>),
       Rule("V", <<"cooks">>), Rule("V", <<"drinks">>), Rule("V", <<"eats">>),
       Rule("V", <<"cuts">>), Rule("P", <<"in">>), Rule("P", <<"with">>),
       Rule("N", <<"cat">>), Rule("N", <<"dog">>), Rule("N", <<"beer">>),
       Rule("N", <<"cake">>), Rule("N", <<"juice">>), Rule("N", <<"meat">>),
       Rule("N", <<"soup">>), Rule("N", <<"fork">>), Rule("N", <<"knife">>),
       Rule("N", <<"oven">>), Rule("N", <<"spoon">>),
       Rule("Det", <<"a">>), Rule("Det", <<"the">>) >>

\* the list cnf_productions of convert_to_proper_cnf
CnfProductions ==
    << Rule("S", <<"NP", "VP">>), Rule("VP", <<"VP1", "PP">>), Rule("VP", <<"V", "NP">>),
       Rule("VP", <<"cooks">>), Rule("VP", <<"drinks">>), Rule("VP", <<"eats">>),
       Rule("VP", <<"cuts">>), Rule("VP1", <<"V", "NP">>),
       Rule("VP1", <<"cooks">>), Rule("VP1", <<"drinks">>), Rule("VP1", <<"eats">>),
       Rule("VP1", <<"cuts">>), Rule("PP", <<"P", "NP">>), Rule("NP", <<"Det", "N">>),
       Rule("NP", <<"he">>), Rule("NP", <<"she">>),
       Rule("V", <<"cooks">>), Rule("V", <<"drinks">>), Rule("V", <<"eats">>),
       Rule("V", <<"cuts">>), Rule("P", <<"in">>), Rule("P", <<"with">>),
       Rule("N", <<"cat">>), Rule("N", <<"dog">>), Rule("N", <<"beer">>),
       Rule("N", <<"cake">>), Rule("N", <<"juice">>), Rule("N", <<"meat">>),
       Rule("N", <<"soup">>), Rule("N", <<"fork">>), Rule("N", <<"knife">>),
       Rule("N", <<"oven">>), Rule("N", <<"spoon">>),
       Rule("Det", <<"a">>), Rule("Det", <<"the">>) >>

\* the sentences of generate_example_sentences
ExampleSentences ==
    { <<"she", "eats">>, <<"he", "cooks">>, <<"she", "drinks">>, <<"he", "cuts">>,
      <<"she", "eats", "a", "cake">>, <<"he", "drinks", "the", "beer">>,
      <<"the", "cat", "eats", "meat">>, <<"a", "dog", "drinks", "juice">>,
      <<"she", "eats", "a", "cake", "with", "a", "fork">>,
      <<"he", "cuts", "meat", "with", "a", "knife">>,
      <<"the", "cat", "drinks", "the", "beer", "in", "the", "oven">>,
      <<"she", "cooks", "soup", "with", "a", "spoon">>,
      <<"the", "dog", "eats", "cake", "in", "the", "oven">> }

\* the sentences of generate_invalid_sentences
InvalidSentences ==
    { <<"eats", "she">>, <<"a", "cake", "eats", "she">>, <<"eats">>, <<"a", "cake">>,
      <<"she", "runs">>, <<"john", "eats">>, <<"she", "eats", "and", "drinks">>,
      <<"the", "big", "cat", "eats">> }

\* validate_sentence: no word of the sentence is outside self.terminals
validate_sentence(sentence) == \A n \in 1..Len(sentence) : sentence[n] \in EnglishWords

\* a pronoun, a verb and a preposition: the words the callers' other sentences
\* are made of, and the length such a sentence is followed to
ShortWords == {"she", "eats", "in"}
MaxWords == 6

\* the sentences a caller hands to EnglishGrammarCYK.parse; run_comprehensive_test
\* hands over an invalid example only when validate_sentence passes it
EnglishSentences ==
    ExampleSentences \cup {s \in InvalidSentences : validate_sentence(s)}
        \cup UNION {[1..n -> ShortWords] : n \in 0..MaxWords}

\* the Grammar object convert_to_proper_cnf makes: the last one constructed
CnfGrammar(h) == Len(h.grammars)

\* convert_to_proper_cnf up to the construction of the parser: the heap it leaves
convert_to_proper_cnf(h) ==
    LET made == Grammar(h)
    IN AddAll(set_start_symbol(made, CnfGrammar(made), "S"), CnfGrammar(made), CnfProductions)

\* analyzer = EnglishGrammarCYK()
InitEnglish ==
    /\ heap = Built("S", EnglishProductions)
    /\ conv = NoConverter
    /\ convPc = "none"
    /\ parser = NoParser
    /\ parsePc = "none"
    /\ loop = NoLoop
    /\ tokens = <<>>
    /\ result = NoResult
    /\ report = NoReport
    /\ fix = NoFix

\* analyzer.convert_to_proper_cnf(), called before any sentence is parsed
ConvertToProperCnf ==
    /\ parsePc = "none"
    /\ heap' = convert_to_proper_cnf(heap)
    /\ parser' = CYKParser(convert_to_proper_cnf(heap), CnfGrammar(convert_to_proper_cnf(heap)))
    /\ parsePc' = "idle"
    /\ UNCHANGED <<conv, convPc, loop, tokens, result, report, fix>>

\* analyzer.parse(sentence): convert_to_proper_cnf when there is no parser yet,
\* then self.parser.parse(sentence) up to the call of _fill_diagonal, or to its
\* return for an empty sentence
EnglishParse(sentence) ==
    /\ parsePc \in {"none", "idle"}
    /\ LET h == IF parsePc = "none" THEN convert_to_proper_cnf(heap) ELSE heap
           p == IF parsePc = "none" THEN CYKParser(h, CnfGrammar(h)) ELSE parser
       IN /\ heap' = h
          /\ tokens' = sentence
          /\ IF sentence = <<>>
             THEN /\ result' = [returned |-> TRUE, accepted |-> FALSE, tree |-> NoTree]
                  /\ parser' = p
                  /\ parsePc' = "idle"
             ELSE /\ parser' = [p EXCEPT !.sentence = sentence,
                                         !.table = EmptyTable(Len(sentence)),
                                         !.parse_table = EmptyParseTable(Len(sentence))]
                  /\ parsePc' = "diagonal"
                  /\ result' = NoResult
    /\ UNCHANGED <<conv, convPc, loop, report, fix>>

NextEnglish ==
    \/ ConvertToProperCnf
    \/ \E sentence \in EnglishSentences : EnglishParse(sentence)
    \/ FillDiagonal
    \/ FillTable
    \/ ParseReturn

SpecEnglish == InitEnglish /\ [][NextEnglish]_vars

\* C30: whenever EnglishGrammarCYK.parse returns, it has accepted the sentence
\* exactly when the grammar of setup_grammar derives it from S; it has accepted
\* every sentence of generate_example_sentences, and rejected every sentence of
\* generate_invalid_sentences that validate_sentence passes.
C30_CnfGrammarSameLanguage ==
    (parsePc = "idle" /\ result.returned) =>
        /\ result.accepted <=> Derives(GrammarVal(heap, G), "S", tokens)
        /\ tokens \in ExampleSentences => result.accepted
        /\ (tokens \in InvalidSentences /\ validate_sentence(tokens)) => ~result.accepted

====
